---- MODULE Spec2Model ----
(***************************************************************************)
(* A model of the `grid` crate (src/src/lib.rs) and of its calendar demo   *)
(* (src/src/bin/grid.rs).                                                   *)
(*                                                                         *)
(* A Grid owns rows of cell factories and four Pixels scalars.  The        *)
(* builder methods take the Grid by value and hand it back; converting a   *)
(* &Grid into an iced Element invokes every factory and composes           *)
(* Container(Column(Row(Container(element), ...), ...)).                   *)
(*                                                                         *)
(* The iced widgets are modelled as records that keep exactly what the     *)
(* crate hands to them: children in order, spacing, padding, the fixed     *)
(* size of a centred container and its style.                              *)
(***************************************************************************)
EXTENDS Integers, Sequences, FiniteSets, TLC

\* ---------------------------------------------------------------- bounds
MaxRows == 2        \* rows a Grid holds in the general specification
MaxCells == 2       \* factories a Grid holds in the general specification
MaxPasses == 2      \* conversions of the Grid in the general specification
CalPasses == 3      \* conversions of the Grid in the calendar demo

\* ------------------------------------------------- constants of the demo
DAYS_PER_WEEK == 7
LastDay == 31
DemoToday == 10
DemoCellSize == 50
DemoPadding == 5

\* Pixels::default() is Pixels(0.0)
PixelsDefault == 0

\* the values a caller hands to the four setters
PixelValues == {-1}

\* the captured state a caller-supplied closure may read when it is invoked
ExtValues == {"light", "dark", "fail"}

VARIABLES
    rows,         \* Grid.rows : Vec<Vec<Factory>>
    cell_width,   \* Grid.cell_width
    cell_height,  \* Grid.cell_height
    gutter,       \* Grid.gutter
    padding,      \* Grid.padding
    today,        \* `today`, captured by the demo's day closures
    pc,           \* where the host is: building the Grid (State::default)
                  \* or in the view loop
    last,         \* the latest call made on the Grid, with its argument
    element,      \* what the latest conversion of &Grid returned
    seen,         \* the captured state the closures read in that conversion
    log,          \* the factory positions that conversion invoked, in order
    prev,         \* what the conversion before that one returned and read
    calls,        \* per position, how often its factory has been invoked
    passes,       \* number of conversions started so far
    clean         \* no conversion has unwound so far

scalars == <<cell_width, cell_height, gutter, padding>>
vars == <<rows, cell_width, cell_height, gutter, padding, today, pc, last,
          element, seen, log, prev, calls, passes, clean>>

\* ---------------------------------------------------------------- styles
DefaultStyle == [background |-> "none", text_color |-> "none"]
RedStyle == [background |-> "255,0,0", text_color |-> "255,255,255"]
WhiteStyle == [background |-> "255,255,255", text_color |-> "0,0,0"]

\* ------------------------------------------------------------------ Cell
\* Into<Element>: every conversion yields a newly owned element; `n` tells
\* the instances made from one source apart.
IntoElement(e, n) == [widget |-> e, instance |-> n]

Cell(e, s) == [tag |-> "Cell", element |-> e, style |-> s]

Cell_from(e, n) == Cell(IntoElement(e, n), DefaultStyle)

Cell_style(cell, s) == [cell EXCEPT !.style = s]

\* a panic unwinding out of a factory
Panic == [tag |-> "panic"]

\* --------------------------------------------------------------- Factory
from_element(e) ==
    [tag |-> "Factory", closure |-> "from_element", element |-> e]

from_element_and_style(e, s) ==
    [tag |-> "Factory", closure |-> "from_element_and_style",
     element |-> e, style |-> s]

from_factory(f) ==
    [tag |-> "Factory", closure |-> "from_factory", factory |-> f]

\* a bare element handed to with_row / with_rows
Bare(e) == [tag |-> "Element", element |-> e]

\* impl From<E> for Factory, and the identity Into<Factory> of a Factory
Factory_from(item) ==
    IF item.tag = "Factory" THEN item ELSE from_element(item.element)

\* The closure of the demo: Text::new(day), red when day == today.
DayFn(day) == [fn |-> "day", day |-> day]

\* A caller's closure that reads captured state: it panics when that state
\* is "fail" and otherwise styles its cell after it.
ThemedFn(e) == [fn |-> "themed", element |-> e]

\* the n-th invocation of a caller's closure while the captured state is x
CallFn(f, n, x) ==
    IF f.fn = "day"
    THEN LET red == f.day = today
         IN Cell_style(Cell_from(f.day, n),
                       IF red THEN RedStyle ELSE WhiteStyle)
    ELSE IF x = "fail"
         THEN Panic
         ELSE Cell_style(Cell_from(f.element, n),
                         IF x = "dark" THEN RedStyle ELSE WhiteStyle)

\* Call with from_element_and_style forgetting the style it was given
CallDropsStyle(f, n, x) ==
    CASE f.closure = "from_element" ->
            Cell(IntoElement(f.element, n), DefaultStyle)
      [] f.closure = "from_element_and_style" ->
            Cell(IntoElement(f.element, n), DefaultStyle)
      [] f.closure = "from_factory" -> CallFn(f.factory, n, x)

\* column.0() : the n-th invocation of the boxed closure
Call(f, n, x) ==
    CASE f.closure = "from_element" ->
            Cell(IntoElement(f.element, n), DefaultStyle)
      [] f.closure = "from_element_and_style" ->
            Cell(IntoElement(f.element, n), f.style)
      [] f.closure = "from_factory" -> CallFn(f.factory, n, x)

\* ------------------------------------------------------------ the widgets
\* Leaf with a style that only the first instance of an element receives
LeafStyledOnce(cell) ==
    [tag |-> "Container", child |-> cell.element,
     width |-> cell_width, height |-> cell_height,
     style |-> IF cell.element.instance > 1 THEN DefaultStyle
               ELSE cell.style,
     padding |-> 0]

\* Container::new(element).center_x(w).center_y(h).style(move |_| style)
Leaf(cell) ==
    [tag |-> "Container", child |-> cell.element,
     width |-> cell_width, height |-> cell_height,
     style |-> cell.style, padding |-> 0]

\* RowOf spaced by the padding instead of the gutter
RowOfPadded(children) ==
    [tag |-> "Row", children |-> children, spacing |-> padding,
     padding |-> 0]

\* .collect::<Row>().spacing(*gutter)
RowOf(children) ==
    [tag |-> "Row", children |-> children, spacing |-> gutter, padding |-> 0]

\* .collect::<Column>().spacing(*gutter)
ColumnOf(children) ==
    [tag |-> "Column", children |-> children, spacing |-> gutter,
     padding |-> 0]

\* Container::new(column).padding(padding.0)
Outer(column) ==
    [tag |-> "Container", child |-> column,
     width |-> "Shrink", height |-> "Shrink",
     style |-> "theme", padding |-> padding]

NoElement == [tag |-> "none"]
Unwound == [tag |-> "unwound"]
NoFrame == [element |-> NoElement, seen |-> "-"]

\* ------------------------------------------------------ From<&Grid>::from
\* MapCells collecting the cells of a row back to front
RECURSIVE MapCellsReversed(_, _, _, _, _)
MapCellsReversed(row, r, c, acc, x) ==
    IF c > Len(row)
    THEN [tag |-> "ok", children |-> acc.children, log |-> acc.log]
    ELSE LET cell == Call(row[c], calls[r][c] + 1, x)
             order == Append(acc.log, <<r, c>>)
         IN IF cell.tag = "panic"
            THEN [tag |-> "panic", log |-> order]
            ELSE MapCellsReversed(row, r, c + 1,
                     [children |-> << Leaf(cell) >> \o acc.children,
                      log |-> order], x)

\* MapCells keeping the cell of a factory it has invoked before
RECURSIVE MapCellsCached(_, _, _, _, _)
MapCellsCached(row, r, c, acc, x) ==
    IF c > Len(row)
    THEN [tag |-> "ok", children |-> acc.children, log |-> acc.log]
    ELSE IF calls[r][c] > 0
    THEN MapCellsCached(row, r, c + 1,
             [children |-> Append(acc.children,
                                  Leaf(Call(row[c], calls[r][c], "light"))),
              log |-> acc.log], x)
    ELSE LET cell == Call(row[c], calls[r][c] + 1, x)
             order == Append(acc.log, <<r, c>>)
         IN IF cell.tag = "panic"
            THEN [tag |-> "panic", log |-> order]
            ELSE MapCellsCached(row, r, c + 1,
                     [children |-> Append(acc.children, Leaf(cell)),
                      log |-> order], x)

\* MapCells catching the panic of a factory and leaving its cell out
RECURSIVE MapCellsCatching(_, _, _, _, _)
MapCellsCatching(row, r, c, acc, x) ==
    IF c > Len(row)
    THEN [tag |-> "ok", children |-> acc.children, log |-> acc.log]
    ELSE LET cell == Call(row[c], calls[r][c] + 1, x)
             order == Append(acc.log, <<r, c>>)
         IN IF cell.tag = "panic"
            THEN MapCellsCatching(row, r, c + 1,
                     [children |-> acc.children, log |-> order], x)
            ELSE MapCellsCatching(row, r, c + 1,
                     [children |-> Append(acc.children, Leaf(cell)),
                      log |-> order], x)

\* row.iter().map(|column| ...) : the cells of row r from column c on
RECURSIVE MapCells(_, _, _, _, _)
MapCells(row, r, c, acc, x) ==
    IF c > Len(row)
    THEN [tag |-> "ok", children |-> acc.children, log |-> acc.log]
    ELSE LET cell == Call(row[c], calls[r][c] + 1, x)
             order == Append(acc.log, <<r, c>>)
         IN IF cell.tag = "panic"
            THEN [tag |-> "panic", log |-> order]
            ELSE MapCells(row, r, c + 1,
                          [children |-> Append(acc.children, Leaf(cell)),
                           log |-> order], x)

\* MapRows leaving out the rows that hold no factory
RECURSIVE MapRowsSkipsEmpty(_, _, _)
MapRowsSkipsEmpty(r, acc, x) ==
    IF r > Len(rows)
    THEN [tag |-> "ok", children |-> acc.children, log |-> acc.log]
    ELSE IF rows[r] = <<>>
    THEN MapRowsSkipsEmpty(r + 1, acc, x)
    ELSE LET res == MapCells(rows[r], r, 1,
                             [children |-> <<>>, log |-> acc.log], x)
         IN IF res.tag = "panic"
            THEN res
            ELSE MapRowsSkipsEmpty(r + 1,
                     [children |-> Append(acc.children,
                                          RowOf(res.children)),
                      log |-> res.log], x)

\* rows.iter().map(|row| ...) : the rows from row r on
RECURSIVE MapRows(_, _, _)
MapRows(r, acc, x) ==
    IF r > Len(rows)
    THEN [tag |-> "ok", children |-> acc.children, log |-> acc.log]
    ELSE LET res == MapCells(rows[r], r, 1,
                             [children |-> <<>>, log |-> acc.log], x)
         IN IF res.tag = "panic"
            THEN res
            ELSE MapRows(r + 1,
                         [children |-> Append(acc.children,
                                              RowOf(res.children)),
                          log |-> res.log], x)

RECURSIVE Count(_, _)
Count(s, p) ==
    IF s = <<>> THEN 0
    ELSE (IF Head(s) = p THEN 1 ELSE 0) + Count(Tail(s), p)

\* Element_from draining the rows it converts
Element_from_draining(x) ==
    /\ LET res == MapRows(1, [children |-> <<>>, log |-> <<>>], x)
       IN /\ element' = IF res.tag = "panic"
                        THEN Unwound
                        ELSE Outer(ColumnOf(res.children))
          /\ log' = res.log
          /\ calls' = <<>>
          /\ clean' = (clean /\ res.tag = "ok")
    /\ seen' = x
    /\ prev' = [element |-> element, seen |-> seen]
    /\ passes' = passes + 1
    /\ last' = [op |-> "from", arg |-> x]
    /\ rows' = <<>>
    /\ UNCHANGED <<cell_width, cell_height, gutter, padding>>

\* Element::from(&grid) while the captured state is x
Element_from(x) ==
    /\ LET res == MapRows(1, [children |-> <<>>, log |-> <<>>], x)
       IN /\ element' = IF res.tag = "panic"
                        THEN Unwound
                        ELSE Outer(ColumnOf(res.children))
          /\ log' = res.log
          /\ calls' = [r \in 1..Len(rows) |->
                          [c \in 1..Len(rows[r]) |->
                              calls[r][c] + Count(res.log, <<r, c>>)]]
          /\ clean' = (clean /\ res.tag = "ok")
    /\ seen' = x
    /\ prev' = [element |-> element, seen |-> seen]
    /\ passes' = passes + 1
    /\ last' = [op |-> "from", arg |-> x]
    /\ UNCHANGED <<rows, cell_width, cell_height, gutter, padding>>

\* ------------------------------------------------------ the Grid builders
\* row.into_iter().map(Into::into).collect()
Collect(row) == [c \in 1..Len(row) |-> Factory_from(row[c])]

Zeros(row) == [c \in 1..Len(row) |-> 0]

\* the Grid is moved through a builder method; nothing is converted
Moved(op, arg) ==
    /\ last' = [op |-> op, arg |-> arg]
    /\ UNCHANGED <<element, seen, log, prev, passes, clean>>

Grid_with_row(row) ==
    /\ rows' = Append(rows, Collect(row))
    /\ calls' = Append(calls, Zeros(row))
    /\ Moved("with_row", row)
    /\ UNCHANGED <<cell_width, cell_height, gutter, padding>>

Grid_with_rows(batch) ==
    /\ rows' = rows \o [i \in 1..Len(batch) |-> Collect(batch[i])]
    /\ calls' = calls \o [i \in 1..Len(batch) |-> Zeros(batch[i])]
    /\ Moved("with_rows", batch)
    /\ UNCHANGED <<cell_width, cell_height, gutter, padding>>

Grid_cell_width(v) ==
    /\ cell_width' = v
    /\ Moved("cell_width", v)
    /\ UNCHANGED <<rows, cell_height, gutter, padding, calls>>

Grid_cell_height(v) ==
    /\ cell_height' = v
    /\ Moved("cell_height", v)
    /\ UNCHANGED <<rows, cell_width, gutter, padding, calls>>

\* Grid_gutter writing the padding as well
Grid_gutter_and_padding(v) ==
    /\ gutter' = v
    /\ padding' = v
    /\ Moved("gutter", v)
    /\ UNCHANGED <<rows, cell_width, cell_height, calls>>

Grid_gutter(v) ==
    /\ gutter' = v
    /\ Moved("gutter", v)
    /\ UNCHANGED <<rows, cell_width, cell_height, padding, calls>>

Grid_padding(v) ==
    /\ padding' = v
    /\ Moved("padding", v)
    /\ UNCHANGED <<rows, cell_width, cell_height, gutter, calls>>

\* Grid::new() / Grid::default()
Grid_new ==
    /\ rows = <<>>
    /\ cell_width = PixelsDefault
    /\ cell_height = PixelsDefault
    /\ gutter = PixelsDefault
    /\ padding = PixelsDefault

Fresh ==
    /\ last = [op |-> "new", arg |-> "-"]
    /\ element = NoElement
    /\ seen = "-"
    /\ log = <<>>
    /\ prev = NoFrame
    /\ calls = <<>>
    /\ passes = 0
    /\ clean = TRUE

\* ------------------------------------------- the general specification
\* A host that builds a Grid by any chain of builder calls and then
\* converts it once per view, as the demo does (its update does nothing).
Items ==
    { Bare("a"),
      from_element_and_style("b", RedStyle),
      from_factory(ThemedFn("c")) }

RECURSIVE Cells(_)
Cells(rs) == IF rs = <<>> THEN 0 ELSE Len(Head(rs)) + Cells(Tail(rs))

\* the rows of at most k items
RowInputs(k) == UNION { [1..n -> Items] : n \in 0..k }

\* the batches of n rows that hold at most k items together
RECURSIVE Batches(_, _)
Batches(n, k) ==
    IF n = 0 THEN { <<>> }
    ELSE UNION { { <<row>> \o rest : rest \in Batches(n - 1, k - Len(row)) } :
                 row \in RowInputs(k) }

Room == MaxCells - Cells(rows)

Init ==
    /\ Grid_new
    /\ Fresh
    /\ today = DemoToday
    /\ pc = "build"

WithRow ==
    /\ pc = "build"
    /\ Len(rows) < MaxRows
    /\ \E row \in RowInputs(Room) : Grid_with_row(row)
    /\ UNCHANGED <<today, pc>>

WithRows ==
    /\ pc = "build"
    /\ \E n \in 0..(MaxRows - Len(rows)) :
          \E batch \in Batches(n, Room) : Grid_with_rows(batch)
    /\ UNCHANGED <<today, pc>>

CellWidth ==
    /\ pc = "build"
    /\ \E v \in PixelValues : Grid_cell_width(v)
    /\ UNCHANGED <<today, pc>>

CellHeight ==
    /\ pc = "build"
    /\ \E v \in PixelValues : Grid_cell_height(v)
    /\ UNCHANGED <<today, pc>>

Gutter ==
    /\ pc = "build"
    /\ \E v \in PixelValues : Grid_gutter(v)
    /\ UNCHANGED <<today, pc>>

Padding ==
    /\ pc = "build"
    /\ \E v \in PixelValues : Grid_padding(v)
    /\ UNCHANGED <<today, pc>>

\* view: Container::new(&state.grid)
View ==
    /\ passes < MaxPasses
    /\ \E x \in ExtValues : Element_from(x)
    /\ pc' = "view"
    /\ UNCHANGED today

Next ==
    \/ WithRow
    \/ WithRows
    \/ CellWidth
    \/ CellHeight
    \/ Gutter
    \/ Padding
    \/ View

Spec == Init /\ [][Next]_vars

\* ------------------------------------------------------ the calendar demo
Header == [i \in 1..7 |->
             Bare(<<"Sun", "Mon", "Tue", "Wed", "Thu", "Fri", "Sat">>[i])]

\* (1..=31).map(move |day| Factory::from_factory(...))
Days == [d \in 1..LastDay |-> from_factory(DayFn(d))]

\* Chunks leaving out a last chunk that is not full
RECURSIVE ChunksExact(_, _)
ChunksExact(s, size) ==
    IF Len(s) < size THEN <<>>
    ELSE << SubSeq(s, 1, size) >>
         \o ChunksExact(SubSeq(s, size + 1, Len(s)), size)

\* .chunks(size).into_iter().map(Itertools::collect_vec).collect_vec()
RECURSIVE Chunks(_, _)
Chunks(s, size) ==
    IF s = <<>> THEN <<>>
    ELSE IF Len(s) <= size THEN << s >>
    ELSE << SubSeq(s, 1, size) >> \o Chunks(SubSeq(s, size + 1, Len(s)), size)

CalInit ==
    /\ Grid_new
    /\ Fresh
    /\ today \in 1..LastDay
    /\ pc = "with_row"

CalWithRow ==
    /\ pc = "with_row"
    /\ Grid_with_row(Header)
    /\ pc' = "with_rows"
    /\ UNCHANGED today

CalWithRows ==
    /\ pc = "with_rows"
    /\ Grid_with_rows(Chunks(Days, DAYS_PER_WEEK))
    /\ pc' = "cell_height"
    /\ UNCHANGED today

CalCellHeight ==
    /\ pc = "cell_height"
    /\ Grid_cell_height(DemoCellSize)
    /\ pc' = "cell_width"
    /\ UNCHANGED today

CalCellWidth ==
    /\ pc = "cell_width"
    /\ Grid_cell_width(DemoCellSize)
    /\ pc' = "padding"
    /\ UNCHANGED today

CalPadding ==
    /\ pc = "padding"
    /\ Grid_padding(DemoPadding)
    /\ pc' = "view"
    /\ UNCHANGED today

\* the demo's closures read nothing but `day` and `today`
CalView ==
    /\ pc = "view"
    /\ passes < CalPasses
    /\ Element_from("-")
    /\ UNCHANGED <<today, pc>>

CalNext ==
    \/ CalWithRow
    \/ CalWithRows
    \/ CalCellHeight
    \/ CalCellWidth
    \/ CalPadding
    \/ CalView

SpecCal == CalInit /\ [][CalNext]_vars

\* ------------------------------------------------------------ properties
\* the positions of the Grid that hold a factory
Positions ==
    UNION { { <<r, c>> : c \in 1..Len(rows[r]) } : r \in 1..Len(rows) }

\* the latest conversion returned an Element
Composed == element.tag = "Container"

RowComposites == element.child.children

HasLeaf(e, r, c) ==
    /\ r <= Len(e.child.children)
    /\ c <= Len(e.child.children[r].children)

LeafAt(e, r, c) == e.child.children[r].children[c]

\* the content a factory was made from
Source(f) ==
    IF f.closure = "from_factory"
    THEN (IF f.factory.fn = "day" THEN f.factory.day ELSE f.factory.element)
    ELSE f.element

Shape(e) ==
    [r \in 1..Len(e.child.children) |-> Len(e.child.children[r].children)]

Styles(e) ==
    [r \in 1..Len(e.child.children) |->
        [c \in 1..Len(e.child.children[r].children) |->
            e.child.children[r].children[c].style]]

\* p comes before q when the Grid is read row by row
Before(p, q) == p[1] < q[1] \/ (p[1] = q[1] /\ p[2] < q[2])

RowMajor(s) == \A i, j \in 1..Len(s) : i < j => Before(s[i], s[j])

Fails(f, x) ==
    /\ f.closure = "from_factory"
    /\ f.factory.fn = "themed"
    /\ x = "fail"

\* C1: whenever a conversion returns, the column holds one row-composite
\* per stored row and row-composite i holds one leaf container per factory
\* of row i; no row is dropped and no short row is padded.
C1_ShapePreserved ==
    Composed =>
        /\ Len(RowComposites) = Len(rows)
        /\ \A r \in 1..Len(rows) :
              Len(RowComposites[r].children) = Len(rows[r])

\* a conversion returned for a Grid with an empty row and a row of two
C1_Witness ==
    /\ Composed
    /\ \E r1, r2 \in 1..Len(rows) : Len(rows[r1]) = 0 /\ Len(rows[r2]) = 2

\* C2: in every pass, the first as much as a later one, the leaf at (r, c)
\* holds the content made by the c-th factory of the r-th stored row.
C2_OrderPreserved ==
    Composed =>
        \A p \in Positions :
            /\ HasLeaf(element, p[1], p[2])
            /\ LeafAt(element, p[1], p[2]).child.widget
                 = Source(rows[p[1]][p[2]])

\* the second pass over a row of two different factories
C2_Witness ==
    /\ Composed
    /\ passes = 2
    /\ \E r \in 1..Len(rows) :
          Len(rows[r]) = 2 /\ Source(rows[r][1]) # Source(rows[r][2])

\* C3: a pass that returns has invoked every stored factory exactly once,
\* row by row and inside a row from the first factory to the last; as long
\* as no pass has unwound every factory has been invoked once per pass,
\* which is never while the Grid is only being built.
C3_InvokedOncePerPass ==
    /\ Composed =>
          /\ RowMajor(log)
          /\ { log[i] : i \in 1..Len(log) } = Positions
          /\ Len(log) = Cardinality(Positions)
    /\ clean => \A p \in Positions : calls[p[1]][p[2]] = passes
    /\ passes = 0 => \A p \in Positions : calls[p[1]][p[2]] = 0

\* two passes over two rows that hold a factory each, none of them failing
C3_Witness ==
    /\ Composed
    /\ clean
    /\ passes = 2
    /\ Len(rows) = 2
    /\ \A r \in 1..2 : Len(rows[r]) >= 1

\* C4: the style of a leaf container is the style of the Cell its factory
\* returned in that pass: the default style for from_element and for the
\* From conversion, the given style for from_element_and_style, in every
\* pass.
C4_StyleForwarded ==
    Composed =>
        \A p \in Positions :
            LET f == rows[p[1]][p[2]]
            IN /\ HasLeaf(element, p[1], p[2])
               /\ f.closure = "from_element" =>
                     LeafAt(element, p[1], p[2]).style = DefaultStyle
               /\ f.closure = "from_element_and_style" =>
                     LeafAt(element, p[1], p[2]).style = f.style
               /\ f.closure = "from_factory" =>
                     LeafAt(element, p[1], p[2]).style
                        = CallFn(f.factory, passes, seen).style

\* the second pass over a Grid that holds a converted bare element and a
\* factory with a style of its own
C4_Witness ==
    /\ Composed
    /\ passes = 2
    /\ \E p, q \in Positions :
          /\ rows[p[1]][p[2]].closure = "from_element"
          /\ rows[q[1]][q[2]].closure = "from_element_and_style"
          /\ LeafAt(element, q[1], q[2]).style = RedStyle

\* C5: in every pass the column and every row are spaced by the gutter,
\* every leaf container has the Grid's cell width and height, and the
\* padding is on the outermost container only.
C5_SpacingAndPadding ==
    Composed =>
        /\ element.padding = padding
        /\ element.child.tag = "Column"
        /\ element.child.spacing = gutter
        /\ element.child.padding = 0
        /\ \A r \in 1..Len(RowComposites) :
              /\ RowComposites[r].tag = "Row"
              /\ RowComposites[r].spacing = gutter
              /\ RowComposites[r].padding = 0
              /\ \A c \in 1..Len(RowComposites[r].children) :
                    /\ RowComposites[r].children[c].width = cell_width
                    /\ RowComposites[r].children[c].height = cell_height
                    /\ RowComposites[r].children[c].padding = 0

\* a Grid with a padding and a cell width of its own, gutter and cell
\* height as they were, converted with a leaf in it
C5_Witness ==
    /\ Composed
    /\ padding = -1
    /\ gutter = 0
    /\ cell_width = -1
    /\ cell_height = 0
    /\ Positions # {}

DayNames == <<"Sun", "Mon", "Tue", "Wed", "Thu", "Fri", "Sat">>

\* C6 as claimed: the calendar converts to 5 row-composites, and every
\* cell but the one of today is white with black text.
C6_Original ==
    (pc = "view" /\ Composed) =>
        /\ Len(RowComposites) = 5
        /\ \A r \in 1..Len(RowComposites) :
              \A c \in 1..Len(RowComposites[r].children) :
                 LET leaf == RowComposites[r].children[c]
                 IN leaf.style = IF leaf.child.widget = today
                                 THEN RedStyle ELSE WhiteStyle

\* C6: the calendar converts to 6 row-composites: the header with 7 cells
\* in the default style, four rows of 7 day cells and a last row of 3; the
\* day cell of today is red with white text and every other day cell white
\* with black text; cells are 50 by 50, the gutter is 0, the padding 5.
C6_Calendar ==
    (pc = "view" /\ Composed) =>
        /\ Len(RowComposites) = 6
        /\ Len(RowComposites[1].children) = 7
        /\ \A r \in 2..5 : Len(RowComposites[r].children) = 7
        /\ Len(RowComposites[6].children) = 3
        /\ \A c \in 1..7 :
              /\ LeafAt(element, 1, c).child.widget = DayNames[c]
              /\ LeafAt(element, 1, c).style = DefaultStyle
        /\ \A r \in 2..6 :
              \A c \in 1..Len(RowComposites[r].children) :
                 LET day == (r - 2) * 7 + c
                 IN /\ LeafAt(element, r, c).child.widget = day
                    /\ LeafAt(element, r, c).style
                         = IF day = today THEN RedStyle ELSE WhiteStyle
        /\ \A r \in 1..6 :
              /\ RowComposites[r].spacing = 0
              /\ \A c \in 1..Len(RowComposites[r].children) :
                    /\ LeafAt(element, r, c).width = 50
                    /\ LeafAt(element, r, c).height = 50
        /\ element.child.spacing = 0
        /\ element.padding = 5

\* the demo as it is shipped, converted
C6_Witness ==
    /\ pc = "view"
    /\ Composed
    /\ today = 10
    /\ passes >= 1

\* C7: a pass in which a factory fails returns no Element; the factories
\* before the failing one were invoked once each, in order, the failing
\* one once and none after it; rows and scalars are as they were.
C7_FailurePropagates ==
    [][ ( /\ passes' = passes + 1
          /\ \E p \in Positions : Fails(rows[p[1]][p[2]], seen') )
        =>
        ( /\ element' = Unwound
          /\ rows' = rows
          /\ scalars' = scalars
          /\ log' # <<>>
          /\ RowMajor(log')
          /\ \A i \in 1..Len(log') :
                /\ log'[i] \in Positions
                /\ Fails(rows[log'[i][1]][log'[i][2]], seen')
                      <=> i = Len(log')
          /\ \A p \in Positions :
                /\ Before(p, log'[Len(log')]) =>
                      \E i \in 1..Len(log') : log'[i] = p
                /\ calls'[p[1]][p[2]]
                     = calls[p[1]][p[2]]
                       + (IF \E i \in 1..Len(log') : log'[i] = p
                          THEN 1 ELSE 0) )
      ]_vars

\* a pass unwound at the second factory it invoked
C7_Witness ==
    /\ element = Unwound
    /\ Len(log) = 2
    /\ ~clean

\* C8 as claimed: two passes in a row give the same shape and the same
\* style at every position, whatever the factories are.
C8_Original ==
    (Composed /\ prev.element.tag = "Container") =>
        /\ Shape(element) = Shape(prev.element)
        /\ Styles(element) = Styles(prev.element)

\* C8: two passes in a row give the same shape, and the same style at
\* every position whose factory was made by from_element, by
\* from_element_and_style or by the From conversion; at the position of a
\* from_factory factory the styles are the same when the state its function
\* reads was the same in both passes.
C8_SameStructure ==
    (Composed /\ prev.element.tag = "Container") =>
        /\ Shape(element) = Shape(prev.element)
        /\ \A p \in Positions :
              (rows[p[1]][p[2]].closure # "from_factory" \/ seen = prev.seen)
              => /\ HasLeaf(element, p[1], p[2])
                 /\ HasLeaf(prev.element, p[1], p[2])
                 /\ LeafAt(element, p[1], p[2]).style
                      = LeafAt(prev.element, p[1], p[2]).style

\* two passes in a row over a from_factory factory whose function read the
\* same state twice and made two instances of its content
C8_Witness ==
    /\ Composed
    /\ prev.element.tag = "Container"
    /\ seen = prev.seen
    /\ \E p \in Positions :
          /\ rows[p[1]][p[2]].closure = "from_factory"
          /\ LeafAt(element, p[1], p[2]).child.instance
               # LeafAt(prev.element, p[1], p[2]).child.instance

\* what Into<Factory> makes of an item handed to with_row / with_rows
Converted(row) ==
    [c \in 1..Len(row) |->
        IF row[c].tag = "Factory" THEN row[c]
        ELSE [tag |-> "Factory", closure |-> "from_element",
              element |-> row[c].element]]

\* C9: a new Grid has no rows and four zero scalars; with_row appends one
\* row at the end, with_rows its rows in their order, and both leave the
\* stored rows and the scalars alone; each setter stores the value it is
\* given in its own scalar and leaves the rows and the other scalars alone.
C9_BuilderFrames ==
    /\ rows = <<>> /\ scalars = <<0, 0, 0, 0>>
    /\ [][ /\ last'.op = "with_row" =>
                /\ rows' = rows \o << Converted(last'.arg) >>
                /\ scalars' = scalars
           /\ last'.op = "with_rows" =>
                /\ Len(rows') = Len(rows) + Len(last'.arg)
                /\ \A i \in 1..Len(rows) : rows'[i] = rows[i]
                /\ \A i \in 1..Len(last'.arg) :
                      rows'[Len(rows) + i] = Converted(last'.arg[i])
                /\ scalars' = scalars
           /\ last'.op = "cell_width" =>
                /\ cell_width' = last'.arg
                /\ rows' = rows
                /\ <<cell_height, gutter, padding>>'
                     = <<cell_height, gutter, padding>>
           /\ last'.op = "cell_height" =>
                /\ cell_height' = last'.arg
                /\ rows' = rows
                /\ <<cell_width, gutter, padding>>'
                     = <<cell_width, gutter, padding>>
           /\ last'.op = "gutter" =>
                /\ gutter' = last'.arg
                /\ rows' = rows
                /\ <<cell_width, cell_height, padding>>'
                     = <<cell_width, cell_height, padding>>
           /\ last'.op = "padding" =>
                /\ padding' = last'.arg
                /\ rows' = rows
                /\ <<cell_width, cell_height, gutter>>'
                     = <<cell_width, cell_height, gutter>>
         ]_vars

\* with_rows has appended one row behind a stored one, in a Grid whose
\* gutter holds a negative value and whose padding is still zero
C9_Witness ==
    /\ last.op = "with_rows"
    /\ Len(last.arg) = 1
    /\ Len(rows) = 2
    /\ gutter = -1
    /\ padding = 0

\* C10: a conversion leaves the rows and the four scalars as they were.
C10_RenderReadsOnly ==
    [][ passes' # passes => (rows' = rows /\ scalars' = scalars) ]_vars

\* the second pass over a Grid that holds a factory and a scalar of its own
C10_Witness ==
    /\ passes = 2
    /\ Positions # {}
    /\ cell_height = -1

====
